---------------------------- MODULE Spec2Model ----------------------------
(***************************************************************************)
(* A model of the two fixture generators of ninkat/chira:                  *)
(*                                                                         *)
(*   scripts/generate_airport.py         the puzzle flight corpus          *)
(*   scripts/generate_migration_data.py  the interstate migration records  *)
(*                                                                         *)
(* Numbers are fixed point.  Distances are tenths of a kilometre, flight   *)
(* times tenths of an hour, intermediate prices mills (1/1000 of a         *)
(* currency unit), returned prices cents.  Every call of the random        *)
(* module is an explicit argument: a unit draw U in 0..1000 stands for     *)
(* random.random() in [0, 1] in per-mille, and the specifications take     *)
(* the draws from bounded grids.                                           *)
(***************************************************************************)
EXTENDS Integers, Sequences, FiniteSets, TLC

VARIABLES
    pc,                 \* position of the running script or call
    call,               \* pending call of a pure function: its arguments and draws
    ret,                \* value the pure function returned
    solution_flights,   \* generate_airport.py:368
    interest_flights,   \* generate_airport.py:371
    filler_flights,     \* generate_airport.py:374
    all_flights,        \* generate_airport.py:377
    next_id,            \* generate_airport.py:368,371
    frame,              \* locals of the sub-generator that is running
    era_i,              \* generate_migration_data.py:202, index into eras
    origin_i,           \* generate_migration_data.py:183, index into states
    destination_i,      \* generate_migration_data.py:184, index into states
    migrations,         \* generate_migration_data.py:176,204
    data,               \* generate_migration_data.py:209
    files,              \* the files written in full, in the order of writing:
                        \* generate_airport.py:426-436,
                        \* generate_migration_data.py:211-213
    partial_file        \* name of the file a failed json.dump left cut short

vars == <<pc, call, ret, solution_flights, interest_flights, filler_flights,
          all_flights, next_id, frame, era_i, origin_i, destination_i,
          migrations, data, files, partial_file>>

-----------------------------------------------------------------------------
(* Arithmetic *)

Min(a, b) == IF a <= b THEN a ELSE b

Max(a, b) == IF a >= b THEN a ELSE b

\* floor(a * b / c) for a, b >= 0 and 0 < c <= 46340, without leaving 32 bits
MulDiv(a, b, c) ==
    LET qa == a \div c
        ra == a % c
        qb == b \div c
        rb == b % c
    IN  qa * b + ra * qb + (ra * rb) \div c

\* round(n / d) to the nearest integer, ties to even, for n >= 0 and d > 0.
\* Python's round() on a float decides a decimal tie by the stored binary
\* value; on exact values it rounds half to even, which is what is modelled.
Round(n, d) ==
    LET q == n \div d
        r == n % d
    IN  IF 2 * r < d THEN q
        ELSE IF 2 * r > d THEN q + 1
        ELSE IF q % 2 = 0 THEN q ELSE q + 1

\* random.uniform(a, b) = a + (b - a) * random(), the draw U in per-mille
uniform(a, b, U) == a + ((b - a) * U) \div 1000

\* the unit draws of a grid of n steps: 0, 1/n, ..., 1
UnitGrid(n) == {(k * 1000) \div n : k \in 0..n}

-----------------------------------------------------------------------------
(* generate_airport.py: duration and price *)

\* line 142: 800 if distance_km > 2000 else 600 (km/h)
base_speed(distance_km) == IF distance_km > 20000 THEN 800 ELSE 600

\* line 144: random.uniform(-0.15, 0.15), in per-mille
deviation(U) == uniform(-150, 150, U)

\* lines 143-145: base_time * (1 + deviation) as the fraction num/den of
\* tenths of an hour
flight_time_raw(distance_km, U) ==
    [num |-> distance_km * (1000 + deviation(U)),
     den |-> base_speed(distance_km) * 1000]

\* Mutant of calculate_flight_time: the max(1.0, ...) of line 146 is dropped.
calculate_flight_time_unfloored(distance_km, U) ==
    LET raw == flight_time_raw(distance_km, U)
    IN  Round(raw.num, raw.den)

\* lines 140-146, tenths of an hour
calculate_flight_time(distance_km, U) ==
    LET raw == flight_time_raw(distance_km, U)
    IN  Max(10, Round(raw.num, raw.den))

\* line 158: random.uniform(-0.15, 0.20), in per-mille
variation(U) == uniform(-150, 200, U)

\* lines 151-152: distance_km * 0.15 * (1 - min(0.5, distance_km / 10000)), mills
base_price(distance_km) ==
    MulDiv(3 * distance_km, 100000 - Min(50000, distance_km), 20000)

\* line 165: 1 - min(0.25, (distance_km - 5000) / 20000), in parts per million
tapering_factor(distance_km) ==
    1000000 - Min(250000, 5 * (distance_km - 50000))

\* lines 151-166: the general formula, before the solution override and
\* the clamp, in mills
general_price(distance_km, flight_time, Uvar) ==
    LET timed  == MulDiv(base_price(distance_km), 120 + flight_time, 120)
        varied == MulDiv(timed, 1000 + variation(Uvar), 1000)
    IN  IF distance_km > 50000
        THEN MulDiv(varied, tapering_factor(distance_km), 40000) \div 25
        ELSE varied

\* line 169: max(150, distance_km * 0.08), mills
min_price(distance_km) == Max(150000, 8 * distance_km)

\* solution_override that replaces the price of every solution flight
solution_override_instead(final_price, is_solution, Uover) ==
    IF is_solution THEN uniform(900000, 1100000, Uover) ELSE final_price

\* lines 172-177: the override of a solution flight's price, mills
solution_override(final_price, is_solution, Uover) ==
    IF is_solution /\ final_price > 1100000 THEN uniform(900000, 1100000, Uover)
    ELSE IF is_solution /\ final_price < 600000 THEN uniform(600000, 800000, Uover)
    ELSE final_price

\* Mutant of clamp_price: the price floor of line 180 is dropped.
clamp_price_unfloored(distance_km, final_price) == Min(2000000, final_price)

\* line 180: max(min_price, min(2000, final_price)), mills
clamp_price(distance_km, final_price) ==
    Max(min_price(distance_km), Min(2000000, final_price))

\* lines 148-180, cents
calculate_flight_price(distance_km, flight_time, is_solution, Uvar, Uover) ==
    LET general == general_price(distance_km, flight_time, Uvar)
        final   == solution_override(general, is_solution, Uover)
    IN  Round(clamp_price(distance_km, final), 10)


-----------------------------------------------------------------------------
(* Values of the variables a specification does not use *)

NoCall == [fn |-> "none"]

NoFrame == [fn |-> "none"]

CallIdle == call = NoCall /\ ret = -1

FlightIdle ==
    /\ solution_flights = <<>>
    /\ interest_flights = <<>>
    /\ filler_flights = <<>>
    /\ all_flights = <<>>
    /\ next_id = 0
    /\ frame = NoFrame

MigrationIdle ==
    /\ era_i = 0
    /\ origin_i = 0
    /\ destination_i = 0
    /\ migrations = <<>>
    /\ data = <<>>
    /\ files = <<>>
    /\ partial_file = ""

flight_vars == <<solution_flights, interest_flights, filler_flights,
                 all_flights, next_id, frame>>

migration_vars == <<era_i, origin_i, destination_i, migrations, data, files,
                    partial_file>>

-----------------------------------------------------------------------------
(* Calls of calculate_flight_time and calculate_flight_price on a grid of  *)
(* arguments and draws                                                     *)

\* distances of the grid are 0, DistStep, ..., DistCount * DistStep tenths of
\* a kilometre: from below the one-hour floor to beyond 25000 km
DistStep == 1873

DistCount == 140

\* draws of the deviation, the market variation and the override
DeviationSteps == 6

VariationSteps == 4

OverrideSteps == 2

\* flight times given to calculate_flight_price: 1.0 h, then every TimeStep
\* tenths of an hour
TimeStep == 55

TimeCount == 7

Distances == {k * DistStep : k \in 0..DistCount}

FlightTimes == {10 + k * TimeStep : k \in 0..TimeCount}

FlightTimeCalls ==
    {[fn |-> "calculate_flight_time", distance_km |-> d, U |-> u] :
        d \in Distances, u \in UnitGrid(DeviationSteps)}

\* the override draw is made only for a solution flight
FlightPriceCalls ==
    {[fn |-> "calculate_flight_price", distance_km |-> d, flight_time |-> t,
      is_solution |-> s, Uvar |-> v, Uover |-> o] :
        d \in Distances, t \in FlightTimes, s \in BOOLEAN,
        v \in UnitGrid(VariationSteps), o \in UnitGrid(OverrideSteps)}

InitTime ==
    /\ pc = "call"
    /\ call \in FlightTimeCalls
    /\ ret = -1
    /\ FlightIdle
    /\ MigrationIdle

CallCalculateFlightTime ==
    /\ pc = "call"
    /\ call.fn = "calculate_flight_time"
    /\ ret' = calculate_flight_time(call.distance_km, call.U)
    /\ pc' = "return"
    /\ UNCHANGED <<call, flight_vars, migration_vars>>

SpecTime == InitTime /\ [][CallCalculateFlightTime]_vars

InitPrice ==
    /\ pc = "call"
    /\ call \in {c \in FlightPriceCalls : c.is_solution \/ c.Uover = 0}
    /\ ret = -1
    /\ FlightIdle
    /\ MigrationIdle

CallCalculateFlightPrice ==
    /\ pc = "call"
    /\ call.fn = "calculate_flight_price"
    /\ ret' = calculate_flight_price(call.distance_km, call.flight_time,
                                     call.is_solution, call.Uvar, call.Uover)
    /\ pc' = "return"
    /\ UNCHANGED <<call, flight_vars, migration_vars>>

SpecPrice == InitPrice /\ [][CallCalculateFlightPrice]_vars


-----------------------------------------------------------------------------
(* generate_airport.py: the tables, scaled                                 *)
(*                                                                         *)
(* Of the 54 airports the model keeps Toronto and the European airports    *)
(* London and Frankfurt, so POINTS_OF_INTEREST has two routes and          *)
(* solution_destinations the two entries whose airport is kept (Stockholm  *)
(* is not).  The corpus target of 5000 and the 25 to 40 flights of a       *)
(* route are scaled to TargetTotal and MinNumFlights..MaxNumFlights.       *)

\* lines 8-78, the IATA codes
airports == <<"YYZ", "LHR", "FRA">>

\* lines 81-92, the codes
airlines == <<"AA", "LH", "LA", "ET", "SQ", "QF", "EK", "AC", "AF", "NZ">>

\* lines 95-120; budgets in cents
PUZZLE_CONFIG ==
    [friend_a |->
        [origin |-> "YYZ",
         available_dates |-> {"2025-06-08", "2025-06-09", "2025-06-10",
                              "2025-06-11", "2025-06-12"},
         preferred_airlines |-> {"AA", "AC"},
         max_budget |-> 120000],
     friend_b |->
        [origin |-> "YYZ",
         available_dates |-> {"2025-06-10", "2025-06-11", "2025-06-12",
                              "2025-06-13", "2025-06-14"},
         preferred_airlines |-> {"AC", "LH"},
         max_budget |-> 150000],
     common_airline |-> "AC",
     solution_destinations |->
        <<[airport |-> "LHR", date |-> "2025-06-10"],
          [airport |-> "FRA", date |-> "2025-06-12"]>>]

\* line 123, the kept airports
EUROPEAN_AIRPORTS == <<"LHR", "FRA">>

\* lines 126-128, as the routes in the order the loops of lines 261-262 and
\* 325-326 visit them
POINTS_OF_INTEREST ==
    [i \in 1..Len(EUROPEAN_AIRPORTS) |-> <<"YYZ", EUROPEAN_AIRPORTS[i]>>]

\* lines 130-138 on the coordinates of lines 10, 20 and 23: the haversine
\* distance, tabulated in tenths of a kilometre (5707.16, 6342.81, 653.50 km)
calculate_distance(origin, destination) ==
    LET pair == {origin, destination}
    IN  IF origin = destination THEN 0
        ELSE IF pair = {"YYZ", "LHR"} THEN 57072
        ELSE IF pair = {"YYZ", "FRA"} THEN 63428
        ELSE 6535

\* lines 257-258 and 320-321: datetime(2025, 6, 1) + timedelta(days=i) as
\* <<year, month, day>>; June has 30 days
add_days(i) ==
    IF 1 + i <= 30 THEN <<2025, 6, 1 + i>> ELSE <<2025, 7, 1 + i - 30>>

Digits == <<"0", "1", "2", "3", "4", "5", "6", "7", "8", "9">>

TwoDigits(n) == Digits[(n \div 10) + 1] \o Digits[(n % 10) + 1]

\* date.strftime("%Y-%m-%d")
strftime(date) ==
    TwoDigits(date[1] \div 100) \o TwoDigits(date[1] % 100) \o "-"
        \o TwoDigits(date[2]) \o "-" \o TwoDigits(date[3])

\* lines 255-258 and 318-321: for i in range(14)
all_dates == [i \in 1..14 |-> strftime(add_days(i - 1))]

\* line 334, target_total of line 374 (5000), scaled
TargetTotal == 9

\* line 264, random.randint(25, 40), scaled
MinNumFlights == 1

MaxNumFlights == 2

\* line 290, attempts < 10
MaxAttempts == 10

\* line 340, existing_count >= 5
MaxPerRoute == 5

\* The draws of the corpus.  The price draws are the middle of their
\* ranges; a date of an interest flight is June 10 or June 12 (each the
\* solution date of one route); a filler flight is dated June 1 and carried
\* by the fifth airline.
CorpusPriceDraws == {[dev |-> 500, var |-> 500, over |-> 500]}

InterestDateDraws == {10, 12}

FillerDateDraws == {1}

InterestAirlineDraws == {1, 2, 3}

FillerAirlineDraws == {5}

\* a flight record of lines 215-224, 296-305 and 352-361; the airline is its code
Flight(id, origin, destination, price, duration, date, distance, airline) ==
    [id |-> id, origin |-> origin, destination |-> destination,
     price |-> price, duration |-> duration, date |-> date,
     distance_km |-> distance, airline |-> airline]

\* get_airline_for_route without the branch of the puzzle routes
get_airline_for_route_any(origin, destination, force_airline, k) ==
    IF force_airline # "" THEN force_airline ELSE airlines[k]

\* lines 182-192; k is the index random.choice draws
get_airline_for_route(origin, destination, force_airline, k) ==
    LET InPuzzle(a) == a \in {"AA", "AC", "LH"}
        IsEuropean == \E i \in 1..Len(EUROPEAN_AIRPORTS) :
                          EUROPEAN_AIRPORTS[i] = destination
    IN  IF force_airline # "" THEN force_airline
        ELSE IF origin = "YYZ" /\ IsEuropean
             THEN SelectSeq(airlines, InPuzzle)[k]
        ELSE airlines[k]

-----------------------------------------------------------------------------
(* generate_airport.py: the three sub-generators and the script *)

\* Mutant of solution_airline: the airline is drawn by get_airline_for_route
\* like that of an interest flight, here its first candidate.
solution_airline_unforced == get_airline_for_route("YYZ", "LHR", "", 1)

\* lines 223 and 242: the airline written into a solution flight
solution_airline == "AC"

\* Mutant of solution_flight: the flight is dated with the first date of
\* the window, not the date of the solution.
solution_flight_wrong_date(id, friend, solution, draw) ==
    LET distance    == calculate_distance(friend.origin, solution.airport)
        flight_time == calculate_flight_time(distance, draw.dev)
        price       == calculate_flight_price(distance, flight_time, TRUE,
                                              draw.var, draw.over)
    IN  Flight(id, friend.origin, solution.airport, price, flight_time,
               all_dates[1], distance, "AC")

\* lines 207-224 and 227-243: the solution flight of one traveler
solution_flight(id, friend, solution, draw) ==
    LET distance    == calculate_distance(friend.origin, solution.airport)
        flight_time == calculate_flight_time(distance, draw.dev)
        price       == calculate_flight_price(distance, flight_time, TRUE,
                                              draw.var, draw.over)
    IN  Flight(id, friend.origin, solution.airport, price, flight_time,
               solution.date, distance, solution_airline)

\* lines 196-200
SolutionFrame ==
    [fn |-> "generate_solution_flights", flights |-> <<>>, flight_id |-> 1,
     i |-> 1]

\* line 367: the script is about to call generate_solution_flights
Init ==
    /\ pc = "solution"
    /\ frame = SolutionFrame
    /\ solution_flights = <<>>
    /\ interest_flights = <<>>
    /\ filler_flights = <<>>
    /\ all_flights = <<>>
    /\ next_id = 0
    /\ CallIdle
    /\ MigrationIdle

\* lines 203-244: one iteration of the loop over solution_destinations
SolutionStep ==
    /\ pc = "solution"
    /\ frame.i <= Len(PUZZLE_CONFIG.solution_destinations)
    /\ \E draw_a \in CorpusPriceDraws, draw_b \in CorpusPriceDraws :
        LET solution == PUZZLE_CONFIG.solution_destinations[frame.i]
            flight_a == solution_flight(frame.flight_id,
                                        PUZZLE_CONFIG.friend_a, solution, draw_a)
            flight_b == solution_flight(frame.flight_id + 1,
                                        PUZZLE_CONFIG.friend_b, solution, draw_b)
        IN  frame' = [frame EXCEPT
                        !.flights = Append(Append(@, flight_a), flight_b),
                        !.flight_id = @ + 2,
                        !.i = @ + 1]
    /\ UNCHANGED <<pc, call, ret, solution_flights, interest_flights,
                   filler_flights, all_flights, next_id, migration_vars>>

\* Mutant of interest_start_id: the counter restarts at 1.
interest_start_id_restarted(start_flight_id) == 1

\* line 251: the id the interest generator starts from
interest_start_id(start_flight_id) == start_flight_id

\* lines 250-258
InterestFrame(start_flight_id) ==
    [fn |-> "generate_interest_flights", flights |-> <<>>,
     flight_id |-> interest_start_id(start_flight_id), at |-> "route",
     route |-> 1, num_flights |-> 0, count |-> 0,
     solution_dates_used |-> {}, price |-> 0, flight_time |-> 0,
     date |-> "", attempts |-> 0]

\* lines 246 and 368-371: generate_solution_flights returns, and the script
\* calls generate_interest_flights(next_id)
SolutionReturn ==
    /\ pc = "solution"
    /\ frame.i > Len(PUZZLE_CONFIG.solution_destinations)
    /\ solution_flights' = frame.flights
    /\ next_id' = frame.flight_id
    /\ frame' = InterestFrame(frame.flight_id)
    /\ pc' = "interest"
    /\ UNCHANGED <<call, ret, interest_flights, filler_flights, all_flights,
                   migration_vars>>

\* lines 267-275: the solution dates of a route
solution_dates_of(origin, destination) ==
    {PUZZLE_CONFIG.solution_destinations[i].date :
        i \in {j \in 1..Len(PUZZLE_CONFIG.solution_destinations) :
                 LET solution == PUZZLE_CONFIG.solution_destinations[j]
                 IN  \/ (origin = PUZZLE_CONFIG.friend_a.origin
                            /\ destination = solution.airport)
                     \/ (origin = PUZZLE_CONFIG.friend_b.origin
                            /\ destination = solution.airport)}}

\* lines 261-275: the next route begins
InterestBeginRoute ==
    /\ pc = "interest"
    /\ frame.at = "route"
    /\ frame.route <= Len(POINTS_OF_INTEREST)
    /\ \E n \in MinNumFlights..MaxNumFlights :
        frame' = [frame EXCEPT
                    !.at = "flight",
                    !.num_flights = n,
                    !.count = 0,
                    !.solution_dates_used =
                        solution_dates_of(POINTS_OF_INTEREST[frame.route][1],
                                          POINTS_OF_INTEREST[frame.route][2])]
    /\ UNCHANGED <<pc, call, ret, solution_flights, interest_flights,
                   filler_flights, all_flights, next_id, migration_vars>>

\* lines 277-289: the duration, the price and the first date of a flight
InterestDrawDate ==
    /\ pc = "interest"
    /\ frame.at = "flight"
    /\ frame.count < frame.num_flights
    /\ \E draw \in CorpusPriceDraws, d \in InterestDateDraws :
        LET distance    == calculate_distance(POINTS_OF_INTEREST[frame.route][1],
                                              POINTS_OF_INTEREST[frame.route][2])
            flight_time == calculate_flight_time(distance, draw.dev)
        IN  frame' = [frame EXCEPT
                        !.at = "date",
                        !.flight_time = flight_time,
                        !.price = calculate_flight_price(distance, flight_time,
                                                         FALSE, draw.var, draw.over),
                        !.date = all_dates[d],
                        !.attempts = 0]
    /\ UNCHANGED <<pc, call, ret, solution_flights, interest_flights,
                   filler_flights, all_flights, next_id, migration_vars>>

\* redraw_date of a generator without the date loop
redraw_date_never(date, used, attempts) == FALSE

\* redraw_date without the limit of attempts
redraw_date_unbounded(date, used, attempts) == date \in used

\* line 290: the condition of the date loop
redraw_date(date, used, attempts) == date \in used /\ attempts < MaxAttempts

\* lines 290-292: one more draw of the date
InterestRedrawDate ==
    /\ pc = "interest"
    /\ frame.at = "date"
    /\ redraw_date(frame.date, frame.solution_dates_used, frame.attempts)
    /\ \E d \in InterestDateDraws :
        frame' = [frame EXCEPT !.date = all_dates[d], !.attempts = @ + 1]
    /\ UNCHANGED <<pc, call, ret, solution_flights, interest_flights,
                   filler_flights, all_flights, next_id, migration_vars>>

\* lines 294-306: the flight is appended.  price, flight_time, date and
\* attempts are assigned again before their next use, and are cleared here.
InterestAppend ==
    /\ pc = "interest"
    /\ frame.at = "date"
    /\ ~redraw_date(frame.date, frame.solution_dates_used, frame.attempts)
    /\ \E k \in InterestAirlineDraws :
        LET origin      == POINTS_OF_INTEREST[frame.route][1]
            destination == POINTS_OF_INTEREST[frame.route][2]
            airline     == get_airline_for_route(origin, destination, "", k)
        IN  frame' = [frame EXCEPT
                        !.flights = Append(@,
                            Flight(frame.flight_id, origin, destination,
                                   frame.price, frame.flight_time, frame.date,
                                   calculate_distance(origin, destination),
                                   airline)),
                        !.flight_id = @ + 1,
                        !.count = @ + 1,
                        !.at = "flight",
                        !.price = 0,
                        !.flight_time = 0,
                        !.date = "",
                        !.attempts = 0]
    /\ UNCHANGED <<pc, call, ret, solution_flights, interest_flights,
                   filler_flights, all_flights, next_id, migration_vars>>

\* line 277: the flights of the route are done.  num_flights and
\* solution_dates_used are assigned again by the next route, and are
\* cleared here.
InterestEndRoute ==
    /\ pc = "interest"
    /\ frame.at = "flight"
    /\ frame.count >= frame.num_flights
    /\ frame' = [frame EXCEPT !.at = "route", !.route = @ + 1,
                               !.num_flights = 0, !.count = 0,
                               !.solution_dates_used = {}]
    /\ UNCHANGED <<pc, call, ret, solution_flights, interest_flights,
                   filler_flights, all_flights, next_id, migration_vars>>

\* lines 324-332
covered_routes ==
    {POINTS_OF_INTEREST[i] : i \in 1..Len(POINTS_OF_INTEREST)}
        \cup {<<PUZZLE_CONFIG.friend_a.origin,
                PUZZLE_CONFIG.solution_destinations[i].airport>> :
                    i \in 1..Len(PUZZLE_CONFIG.solution_destinations)}
        \cup {<<PUZZLE_CONFIG.friend_b.origin,
                PUZZLE_CONFIG.solution_destinations[i].airport>> :
                    i \in 1..Len(PUZZLE_CONFIG.solution_destinations)}

\* lines 310-332
FillerFrame(start_flight_id, target_total) ==
    [fn |-> "generate_filler_flights", flights |-> <<>>,
     flight_id |-> start_flight_id, start_flight_id |-> start_flight_id,
     target_total |-> target_total]

\* lines 308 and 371-374: generate_interest_flights returns, and the script
\* calls generate_filler_flights(next_id, 5000)
InterestReturn ==
    /\ pc = "interest"
    /\ frame.at = "route"
    /\ frame.route > Len(POINTS_OF_INTEREST)
    /\ interest_flights' = frame.flights
    /\ next_id' = frame.flight_id
    /\ frame' = FillerFrame(frame.flight_id, TargetTotal)
    /\ pc' = "filler"
    /\ UNCHANGED <<call, ret, solution_flights, filler_flights, all_flights,
                   migration_vars>>

\* Mutant of filler_wanted: the loop runs one iteration too many.
filler_wanted_off_by_one(flights, start_flight_id, target_total) ==
    Len(flights) <= target_total - start_flight_id + 1

\* line 334: the condition of the filler loop
filler_wanted(flights, start_flight_id, target_total) ==
    Len(flights) < target_total - start_flight_id + 1

\* Mutant of sample_pairs: two independent random.choice draws.
sample_pairs_with_replacement ==
    {<<airports[i], airports[j]>> : i \in 1..Len(airports), j \in 1..Len(airports)}

\* line 335: random.sample(iata_codes, 2), the ordered pairs it can return
sample_pairs ==
    {<<airports[p[1]], airports[p[2]]>> :
        p \in {q \in (1..Len(airports)) \X (1..Len(airports)) : q[1] # q[2]}}

\* line 339
existing_count(flights, origin, destination) ==
    Cardinality({i \in 1..Len(flights) :
                    flights[i].origin = origin /\ flights[i].destination = destination})

\* filler_skip without the limit of flights per route
filler_skip_uncapped(flights, route) == route \in covered_routes

\* filler_skip with a limit of one flight per route
filler_skip_after_first(flights, route) ==
    route \in covered_routes \/ existing_count(flights, route[1], route[2]) >= 1

\* line 340: the sampled route is skipped
filler_skip(flights, route) ==
    route \in covered_routes \/ existing_count(flights, route[1], route[2]) >= MaxPerRoute

\* lines 334-341: an iteration that samples a route and skips it
FillerSkip ==
    /\ pc = "filler"
    /\ filler_wanted(frame.flights, frame.start_flight_id, frame.target_total)
    /\ \E route \in sample_pairs : filler_skip(frame.flights, route)
    /\ UNCHANGED vars

\* lines 334-362: an iteration that samples a route and appends a flight
FillerAppend ==
    /\ pc = "filler"
    /\ filler_wanted(frame.flights, frame.start_flight_id, frame.target_total)
    /\ \E route \in sample_pairs, draw \in CorpusPriceDraws,
          d \in FillerDateDraws, k \in FillerAirlineDraws :
        /\ ~filler_skip(frame.flights, route)
        /\ LET distance    == calculate_distance(route[1], route[2])
               flight_time == calculate_flight_time(distance, draw.dev)
               price       == calculate_flight_price(distance, flight_time, FALSE,
                                                     draw.var, draw.over)
               airline     == get_airline_for_route(route[1], route[2], "", k)
           IN  frame' = [frame EXCEPT
                           !.flights = Append(@,
                               Flight(frame.flight_id, route[1], route[2], price,
                                      flight_time, all_dates[d], distance, airline)),
                           !.flight_id = @ + 1]
    /\ UNCHANGED <<pc, call, ret, solution_flights, interest_flights,
                   filler_flights, all_flights, next_id, migration_vars>>

\* lines 364 and 374: generate_filler_flights returns
FillerReturn ==
    /\ pc = "filler"
    /\ ~filler_wanted(frame.flights, frame.start_flight_id, frame.target_total)
    /\ filler_flights' = frame.flights
    /\ frame' = NoFrame
    /\ pc' = "concat"
    /\ UNCHANGED <<call, ret, solution_flights, interest_flights, all_flights,
                   next_id, migration_vars>>

\* line 377
Concat ==
    /\ pc = "concat"
    /\ all_flights' = solution_flights \o interest_flights \o filler_flights
    /\ pc' = "done"
    /\ UNCHANGED <<call, ret, solution_flights, interest_flights,
                   filler_flights, next_id, frame, migration_vars>>

\* lines 380-420; the title stands for the whole static dictionary
puzzle_description == [title |-> "Travel Rendezvous Challenge"]

\* lines 426-436: the files of the try block, in the order of writing
output_files ==
    << [name |-> "assets/airports.json", content |-> airports],
       [name |-> "assets/airlines.json", content |-> airlines],
       [name |-> "assets/flights.json", content |-> all_flights],
       [name |-> "assets/puzzle_description.json",
        content |-> puzzle_description] >>

\* what a write that raises leaves of its file: nothing when open() raises,
\* a file cut short when json.dump raises
RaiseStages == {"open", "dump"}

left_by_raise(stage, name) == IF stage = "dump" THEN name ELSE ""

\* the handler of lines 452-454 ends a script whose write raised
except_reached == "error reported"

\* no handler: the exception leaves the script as an unhandled error
except_missing == "unhandled exception"

\* lines 426-436: one "with open(...) as f: json.dump(...)" that succeeds;
\* after the last one the script prints its summary (lines 438-450)
FlightWrite ==
    /\ pc = "done"
    /\ Len(files) < Len(output_files)
    /\ files' = Append(files, output_files[Len(files) + 1])
    /\ pc' = IF Len(files') = Len(output_files) THEN "written" ELSE "done"
    /\ UNCHANGED <<call, ret, flight_vars, era_i, origin_i, destination_i,
                   migrations, data, partial_file>>

\* lines 426-436 and 452-454: a write raises inside the try block; the
\* except clause prints the diagnostic and the working directory, and the
\* script ends with the remaining files unwritten
FlightWriteRaises ==
    /\ pc = "done"
    /\ Len(files) < Len(output_files)
    /\ \E stage \in RaiseStages :
        partial_file' = left_by_raise(stage, output_files[Len(files) + 1].name)
    /\ pc' = except_reached
    /\ UNCHANGED <<call, ret, flight_vars, era_i, origin_i, destination_i,
                   migrations, data, files>>

Next ==
    \/ SolutionStep
    \/ SolutionReturn
    \/ InterestBeginRoute
    \/ InterestDrawDate
    \/ InterestRedrawDate
    \/ InterestAppend
    \/ InterestEndRoute
    \/ InterestReturn
    \/ FillerSkip
    \/ FillerAppend
    \/ FillerReturn
    \/ Concat
    \/ FlightWrite
    \/ FlightWriteRaises

Spec == Init /\ [][Next]_vars

-----------------------------------------------------------------------------
(* Claims about the duration and the price *)

\* C6: calculate_flight_time returns at least 1.0 hour for every distance
\* >= 0 and every deviation in [-0.15, 0.15]: a result above 1.0 is
\* distance / speed * (1 + deviation) to the nearest tenth (speed 800 km/h
\* above 2000 km, else 600 km/h), and the result is 1.0 exactly when that
\* value rounds to 1.0 or less.
C6_DurationAtLeastOneHour ==
    (pc = "return" /\ call.fn = "calculate_flight_time") =>
        LET d     == call.distance_km
            speed == IF d > 20000 THEN 800 ELSE 600
            num   == d * (1000 + uniform(-150, 150, call.U))
            den   == speed * 1000
            diff  == ret * den - num
        IN  /\ ret >= 10
            /\ ret > 10 => (2 * diff <= den /\ -2 * diff <= den)
            /\ ret = 10 => 2 * num <= 21 * den

\* C6 witness: a flight whose perturbed time is below one hour was floored.
C6_Witness ==
    /\ pc = "return"
    /\ call.fn = "calculate_flight_time"
    /\ call.distance_km > 0
    /\ 10 * call.distance_km * (1000 + uniform(-150, 150, call.U)) < 95 * 600 * 1000
    /\ ret = 10

-----------------------------------------------------------------------------
(* Claims about the flight corpus *)

friends == {PUZZLE_CONFIG.friend_a, PUZZLE_CONFIG.friend_b}

solutions ==
    {PUZZLE_CONFIG.solution_destinations[i] :
        i \in 1..Len(PUZZLE_CONFIG.solution_destinations)}

\* flight f is a flight of the traveler to the solution's airport on its date
SameTrip(f, friend, solution) ==
    /\ f.origin = friend.origin
    /\ f.destination = solution.airport
    /\ f.date = solution.date

\* flight f solves the puzzle for the traveler
Solves(f, friend, solution) ==
    /\ SameTrip(f, friend, solution)
    /\ f.price <= friend.max_budget
    /\ f.airline = PUZZLE_CONFIG.common_airline
    /\ f.airline \in friend.preferred_airlines
    /\ f.date \in friend.available_dates

\* every draw of the grids of the duration and price calls
SolutionDrawGrid ==
    {[dev |-> d, var |-> v, over |-> o] :
        d \in UnitGrid(DeviationSteps), v \in UnitGrid(VariationSteps),
        o \in UnitGrid(OverrideSteps)}

\* C1: in the final corpus every solution entry has, for each traveler, a
\* flight from the traveler's home to the entry's airport on its date, within
\* the traveler's budget, on the common airline, which the traveler prefers,
\* on a date the traveler is available; and the solution flight of every
\* entry and traveler satisfies this for every draw of the grid.
C1_PuzzleSolvable ==
    /\ pc = "done" =>
        \A solution \in solutions, friend \in friends :
            \E i \in 1..Len(all_flights) : Solves(all_flights[i], friend, solution)
    /\ pc = "solution" =>
        \A solution \in solutions, friend \in friends, draw \in SolutionDrawGrid :
            Solves(solution_flight(1, friend, solution, draw), friend, solution)

\* C1 witness: the finished corpus holds a flight to Frankfurt on June 12 on
\* Air Canada within the smaller budget.
C1_Witness ==
    /\ pc = "done"
    /\ \E i \in 1..Len(all_flights) :
        /\ all_flights[i].origin = "YYZ"
        /\ all_flights[i].destination = "FRA"
        /\ all_flights[i].date = "2025-06-12"
        /\ all_flights[i].airline = "AC"
        /\ all_flights[i].price <= 120000

\* C2 as stated: the corpus holds exactly one flight of each traveler to
\* each solution airport on its date, and it is within the budget and on the
\* common airline.
C2_ExactlyOneSolutionFlight ==
    pc = "done" =>
        \A solution \in solutions, friend \in friends :
            LET same == {i \in 1..Len(all_flights) :
                            SameTrip(all_flights[i], friend, solution)}
            IN  /\ Cardinality(same) = 1
                /\ \A i \in same :
                    /\ all_flights[i].price <= friend.max_budget
                    /\ all_flights[i].airline = PUZZLE_CONFIG.common_airline

\* C2 amended: among the solution flights there is exactly one flight per
\* traveler for each solution entry, so as many as there are travelers with
\* that home airport (two, both live in Toronto), each within the budget and
\* on the common airline.
C2_OneSolutionFlightPerTraveler ==
    pc = "done" =>
        \A solution \in solutions, friend \in friends :
            LET good == {i \in 1..Len(solution_flights) :
                            /\ SameTrip(all_flights[i], friend, solution)
                            /\ all_flights[i].price <= friend.max_budget
                            /\ all_flights[i].airline = PUZZLE_CONFIG.common_airline}
                sharing == {g \in {"friend_a", "friend_b"} :
                                PUZZLE_CONFIG[g].origin = friend.origin}
            IN  Cardinality(good) = Cardinality(sharing)

\* C2 witness: a finished corpus in which an interest flight matches a
\* solution entry as well, beside the two solution flights.
C2_Witness ==
    /\ pc = "done"
    /\ \E solution \in solutions :
        Cardinality({i \in 1..Len(all_flights) :
            Solves(all_flights[i], PUZZLE_CONFIG.friend_a, solution)}) > 2

\* C3: the filler generator returns target_total - start_flight_id + 1
\* flights, and the finished corpus holds exactly the target number of
\* records whatever numbers of interest flights were drawn.
C3_RecordCount ==
    /\ pc \in {"concat", "done"} =>
        Len(filler_flights) = TargetTotal - next_id + 1
    /\ pc = "done" => Len(all_flights) = TargetTotal

\* C3 witness: a finished corpus of the target size in which every interest
\* route drew the largest number of flights.
C3_Witness ==
    /\ pc = "done"
    /\ Len(interest_flights) = MaxNumFlights * Len(POINTS_OF_INTEREST)
    /\ Len(filler_flights) > 0
    /\ Len(all_flights) = TargetTotal

\* C4: the record at position i of the corpus has id i, so the ids are
\* 1..N without gap or repeat; every solution id is below every interest id,
\* and every interest id below every filler id.
C4_IdsSequential ==
    pc = "done" =>
        /\ \A i \in 1..Len(all_flights) : all_flights[i].id = i
        /\ \A i \in 1..Len(solution_flights), j \in 1..Len(interest_flights) :
            solution_flights[i].id < interest_flights[j].id
        /\ \A i \in 1..Len(interest_flights), j \in 1..Len(filler_flights) :
            interest_flights[i].id < filler_flights[j].id

\* C4 witness: a finished corpus with flights of all three generators, the
\* interest routes having drawn different numbers of flights.
C4_Witness ==
    /\ pc = "done"
    /\ Len(solution_flights) > 0
    /\ Len(interest_flights) = MinNumFlights + MaxNumFlights
    /\ Len(filler_flights) > 1
    /\ all_flights[Len(all_flights)].id = Len(all_flights)

AllDiffer(flights) ==
    \A i \in 1..Len(flights) : flights[i].origin # flights[i].destination

\* C5: every flight record, of every generator and at every moment, has
\* origin # destination.
C5_OriginDiffersFromDestination ==
    /\ AllDiffer(solution_flights)
    /\ AllDiffer(interest_flights)
    /\ AllDiffer(filler_flights)
    /\ AllDiffer(all_flights)
    /\ pc \in {"solution", "interest", "filler"} => AllDiffer(frame.flights)

\* C5 witness: a finished corpus with a filler flight between the two
\* European airports and one back to Toronto.
C5_Witness ==
    /\ pc = "done"
    /\ \E i \in 1..Len(filler_flights) :
        filler_flights[i].origin = "LHR" /\ filler_flights[i].destination = "FRA"
    /\ \E i \in 1..Len(filler_flights) :
        filler_flights[i].origin = "FRA" /\ filler_flights[i].destination = "YYZ"

-----------------------------------------------------------------------------
(* generate_migration_data.py: tables                                      *)
(*                                                                         *)
(* Three of the 51 states are kept, in the order of the 2020s table:       *)
(* CALIFORNIA and NEVADA are neighbours and destinations with a            *)
(* multiplier, ALASKA has no neighbour among the three and no multiplier.  *)
(* Populations are the source's figures.                                   *)

\* a 1960s table from before Alaska's statehood
STATE_POPULATIONS_1960S_without_alaska ==
    "CALIFORNIA" :> 15717204 @@ "NEVADA" :> 285278

STATE_POPULATIONS_1960S ==
    "CALIFORNIA" :> 15717204 @@ "NEVADA" :> 285278 @@ "ALASKA" :> 226167

STATE_POPULATIONS_1990S ==
    "CALIFORNIA" :> 29760021 @@ "NEVADA" :> 1201833 @@ "ALASKA" :> 550043

STATE_POPULATIONS_2020S ==
    "CALIFORNIA" :> 39538223 @@ "NEVADA" :> 3104614 @@ "ALASKA" :> 733391

ALL_STATE_POPULATIONS ==
    "1960s" :> STATE_POPULATIONS_1960S @@
    "1990s" :> STATE_POPULATIONS_1990S @@
    "2020s" :> STATE_POPULATIONS_2020S

\* the neighbours of a state that are among the three
NEIGHBORING_STATES ==
    "CALIFORNIA" :> {"NEVADA"} @@ "NEVADA" :> {"CALIFORNIA"} @@ "ALASKA" :> {}

\* multipliers in tenths
DESTINATION_MULTIPLIERS_1960S == "CALIFORNIA" :> 16

DESTINATION_MULTIPLIERS_1990S == "CALIFORNIA" :> 13 @@ "NEVADA" :> 11

DESTINATION_MULTIPLIERS_2020S == "CALIFORNIA" :> 13 @@ "NEVADA" :> 11

ALL_DESTINATION_MULTIPLIERS ==
    "1960s" :> DESTINATION_MULTIPLIERS_1960S @@
    "1990s" :> DESTINATION_MULTIPLIERS_1990S @@
    "2020s" :> DESTINATION_MULTIPLIERS_2020S

\* line 200
eras == <<"1960s", "1990s", "2020s">>

\* line 180: list(STATE_POPULATIONS_2020S.keys()), in insertion order
states == <<"CALIFORNIA", "NEVADA", "ALASKA">>

-----------------------------------------------------------------------------
(* generate_migration_data.py: generate_migration_value *)

RECURSIVE isqrt_between(_, _, _)
\* the largest r in lo..hi with r * r <= n
isqrt_between(n, lo, hi) ==
    IF lo >= hi THEN lo
    ELSE LET mid == (lo + hi + 1) \div 2
         IN  IF mid * mid <= n THEN isqrt_between(n, mid, hi)
             ELSE isqrt_between(n, lo, mid - 1)

\* floor(sqrt(n)) for 0 <= n < 2^31
isqrt(n) == isqrt_between(n, 0, 46340)

\* floor(origin_pop * dest_pop / 10^6), the populations split in thousands
\* to stay within 32 bits
pop_product_millionth(origin_pop, dest_pop) ==
    LET oh == origin_pop \div 1000
        ol == origin_pop % 1000
        dh == dest_pop \div 1000
        dl == dest_pop % 1000
    IN  oh * dh + (oh * dl + ol * dh + (ol * dl) \div 1000) \div 1000

\* line 158: int((origin_pop * dest_pop) ** 0.5 / 1000)
\*   floor(sqrt(x) / 1000) = floor(sqrt(floor(x / 10^6)))
base_value(origin_pop, dest_pop) ==
    isqrt(pop_product_millionth(origin_pop, dest_pop))

\* lines 151-172: the value of a pair once the equal-pair test is passed.
\* Un and Ur are the unit draws of lines 162 and 169.  The product is exact:
\* thousandths after the neighbour factor, 1/10000 after the multiplier, and
\* the floors of the last factor and of int() compose to one floor.  The
\* code's float product can fall just short of an exact product that is a
\* whole number, and int() then gives one less (6 of the 195075 calls of the
\* 51 states on the grid, none among the three states kept here).
migration_value_of_pair(origin, destination, era, Un, Ur) ==
    LET current_state_populations == ALL_STATE_POPULATIONS[era]
        current_destination_multipliers == ALL_DESTINATION_MULTIPLIERS[era]
        origin_pop == current_state_populations[origin]
        dest_pop == current_state_populations[destination]
        base == base_value(origin_pop, dest_pop)
        neighbored == IF destination \in NEIGHBORING_STATES[origin]
                      THEN base * uniform(1500, 2000, Un)
                      ELSE base * 1000
        multiplied == IF destination \in DOMAIN current_destination_multipliers
                      THEN neighbored * current_destination_multipliers[destination]
                      ELSE neighbored * 10
        randomized == MulDiv(multiplied, uniform(800, 1200, Ur), 1000)
    IN  Max(100, randomized \div 10000)

\* generate_migration_value without the test of lines 147-148
generate_migration_value_without_equal_test(origin, destination, era, Un, Ur) ==
    migration_value_of_pair(origin, destination, era, Un, Ur)

\* lines 145-172
generate_migration_value(origin, destination, era, Un, Ur) ==
    IF origin = destination THEN 0
    ELSE migration_value_of_pair(origin, destination, era, Un, Ur)

-----------------------------------------------------------------------------
(* generate_migration_data.py: generate_migration_data and main *)

\* draws of the run of main: the middle of the neighbour factor; the two
\* ends of the random factor for the records that leave the first states of
\* the list and its middle for those that leave the last, which is enough
\* for the order of the values to depend on the draws
MigrationNeighborDraws == {500}

MigrationRandomDraws(origin) ==
    IF origin = states[Len(states)] THEN {500} ELSE {0, 1000}

\* draws of the calls of generate_migration_value on their own
NeighborSteps == 4

RandomSteps == 4

StateSet == {states[i] : i \in 1..Len(states)}

MigrationValueCalls ==
    [fn : {"generate_migration_value"}, origin : StateSet,
     destination : StateSet, era : {eras[i] : i \in 1..Len(eras)},
     Un : UnitGrid(NeighborSteps), Ur : UnitGrid(RandomSteps)]

RECURSIVE insert_descending(_, _)
\* r placed in the descending list s behind the records of value >= r.value
insert_descending(s, r) ==
    IF s = <<>> THEN <<r>>
    ELSE IF s[1].value >= r.value THEN <<s[1]>> \o insert_descending(Tail(s), r)
    ELSE <<r>> \o s

RECURSIVE insert_ascending(_, _)
insert_ascending(s, r) ==
    IF s = <<>> THEN <<r>>
    ELSE IF s[1].value <= r.value THEN <<s[1]>> \o insert_ascending(Tail(s), r)
    ELSE <<r>> \o s

RECURSIVE sort_ascending(_)
\* migrations.sort(key=lambda x: x["value"]) without reverse=True
sort_ascending(s) ==
    IF s = <<>> THEN <<>>
    ELSE insert_ascending(sort_ascending(SubSeq(s, 1, Len(s) - 1)), s[Len(s)])

RECURSIVE sort_descending(_)
\* line 207: migrations.sort(key=lambda x: x["value"], reverse=True), stable:
\* records of equal value keep their order
sort_descending(s) ==
    IF s = <<>> THEN <<>>
    ELSE insert_descending(sort_descending(SubSeq(s, 1, Len(s) - 1)), s[Len(s)])

\* line 211
output_filename(era) == "src/assets/migration_" \o era \o ".json"

\* line 186: both states are in the era's population table
in_population_table(origin, destination, era) ==
    /\ origin \in DOMAIN ALL_STATE_POPULATIONS[era]
    /\ destination \in DOMAIN ALL_STATE_POPULATIONS[era]

\* lines 185-186: the pair gets a record
pair_recorded ==
    /\ states[origin_i] # states[destination_i]
    /\ in_population_table(states[origin_i], states[destination_i], eras[era_i])

\* lines 183-184: the loops move to the next pair, or end and
\* generate_migration_data returns (line 196)
NextPair ==
    IF destination_i < Len(states)
    THEN /\ destination_i' = destination_i + 1
         /\ UNCHANGED <<pc, origin_i>>
    ELSE IF origin_i < Len(states)
    THEN /\ origin_i' = origin_i + 1
         /\ destination_i' = 1
         /\ UNCHANGED pc
    ELSE /\ pc' = "sort"
         /\ origin_i' = 0
         /\ destination_i' = 0

\* main starts: the first era, generate_migration_data at its first pair
InitMain ==
    /\ pc = "migration_data"
    /\ era_i = 1
    /\ origin_i = 1
    /\ destination_i = 1
    /\ migrations = <<>>
    /\ data = <<>>
    /\ files = <<>>
    /\ partial_file = ""
    /\ CallIdle
    /\ FlightIdle

\* a call of generate_migration_value that returns: the states are equal
\* (line 148) or both in the era's table (a KeyError at lines 154-155
\* otherwise)
InitMigrationValue ==
    /\ pc = "call"
    /\ call \in {c \in MigrationValueCalls :
                    \/ c.origin = c.destination
                    \/ in_population_table(c.origin, c.destination, c.era)}
    /\ ret = -1
    /\ FlightIdle
    /\ MigrationIdle

InitMigration == InitMain \/ InitMigrationValue

CallGenerateMigrationValue ==
    /\ pc = "call"
    /\ call.fn = "generate_migration_value"
    /\ ret' = generate_migration_value(call.origin, call.destination, call.era,
                                       call.Un, call.Ur)
    /\ pc' = "return"
    /\ UNCHANGED <<call, flight_vars, migration_vars>>

\* lines 185-192: a pair that gets a record
MigrationAppend ==
    /\ pc = "migration_data"
    /\ pair_recorded
    /\ \E Un \in MigrationNeighborDraws, Ur \in MigrationRandomDraws(states[origin_i]) :
        migrations' = Append(migrations,
            [origin |-> states[origin_i],
             destination |-> states[destination_i],
             value |-> generate_migration_value(states[origin_i],
                           states[destination_i], eras[era_i], Un, Ur)])
    /\ NextPair
    /\ UNCHANGED <<call, ret, flight_vars, era_i, data, files, partial_file>>

\* lines 185-186: a pair that gets none
MigrationSkip ==
    /\ pc = "migration_data"
    /\ ~pair_recorded
    /\ NextPair
    /\ UNCHANGED <<call, ret, flight_vars, era_i, migrations, data, files,
                   partial_file>>

\* line 207
MigrationSort ==
    /\ pc = "sort"
    /\ migrations' = sort_descending(migrations)
    /\ pc' = "dump"
    /\ UNCHANGED <<call, ret, flight_vars, era_i, origin_i, destination_i,
                   data, files, partial_file>>

\* lines 209-213, then the next era (lines 202-204, 176) or the end of main
MigrationDump ==
    /\ pc = "dump"
    /\ data' = [migrations |-> migrations]
    /\ files' = Append(files, [name |-> output_filename(eras[era_i]),
                               content |-> data'])
    /\ IF era_i < Len(eras)
       THEN /\ era_i' = era_i + 1
            /\ origin_i' = 1
            /\ destination_i' = 1
            /\ migrations' = <<>>
            /\ pc' = "migration_data"
       ELSE /\ pc' = "done"
            /\ UNCHANGED <<era_i, origin_i, destination_i, migrations>>
    /\ UNCHANGED <<call, ret, flight_vars, partial_file>>

\* lines 209-213 when open() or json.dump raises: main has no try, so the
\* exception leaves main and the script (lines 216-217) unhandled
MigrationDumpRaises ==
    /\ pc = "dump"
    /\ data' = [migrations |-> migrations]
    /\ \E stage \in RaiseStages :
        partial_file' = left_by_raise(stage, output_filename(eras[era_i]))
    /\ pc' = except_missing
    /\ UNCHANGED <<call, ret, flight_vars, era_i, origin_i, destination_i,
                   migrations, files>>

NextMigration ==
    \/ CallGenerateMigrationValue
    \/ MigrationAppend
    \/ MigrationSkip
    \/ MigrationSort
    \/ MigrationDump
    \/ MigrationDumpRaises

SpecMigration == InitMigration /\ [][NextMigration]_vars

-----------------------------------------------------------------------------
(* Claims: the migration records *)

records_differ(s) == \A i \in 1..Len(s) : s[i].origin # s[i].destination

\* C8: generate_migration_value returns 0 for origin = destination and an
\* integer >= 100 otherwise, for every era and every draw; and no record of
\* generate_migration_data, in the making or written, has origin =
\* destination.
C8_MigrationValueAndNoSelfPair ==
    /\ (pc = "return" /\ call.fn = "generate_migration_value") =>
        /\ call.origin = call.destination => ret = 0
        /\ call.origin # call.destination => ret >= 100
    /\ records_differ(migrations)
    /\ \A i \in 1..Len(migrations) : migrations[i].value >= 100
    /\ \A f \in 1..Len(files) : records_differ(files[f].content.migrations)

\* C8 witness: a call with origin = destination has returned 0.
C8_Witness ==
    /\ pc = "return"
    /\ call.fn = "generate_migration_value"
    /\ call.origin = call.destination
    /\ ret = 0

distinct_pairs ==
    {p \in StateSet \X StateSet : p[1] # p[2]}

pairs_of(s) == {<<s[i].origin, s[i].destination>> : i \in 1..Len(s)}

occurrences(s, p) ==
    Cardinality({i \in 1..Len(s) : s[i].origin = p[1] /\ s[i].destination = p[2]})

\* C9: the file of each era holds every ordered pair of distinct states
\* exactly once, n * (n - 1) records for the n states, and the files of all
\* eras hold the same pairs.
C9_EveryPairOncePerEra ==
    /\ \A f \in 1..Len(files) :
        LET s == files[f].content.migrations
        IN  /\ Len(s) = Len(states) * (Len(states) - 1)
            /\ pairs_of(s) = distinct_pairs
            /\ \A p \in distinct_pairs : occurrences(s, p) = 1
    /\ \A f, g \in 1..Len(files) :
        pairs_of(files[f].content.migrations) = pairs_of(files[g].content.migrations)

\* C9 witness: main has ended and the three files are written.
C9_Witness ==
    /\ pc = "done"
    /\ Len(files) = Len(eras)
    /\ \A f \in 1..Len(files) : files[f].name = output_filename(eras[f])

non_increasing(s) == \A i \in 1..(Len(s) - 1) : s[i].value >= s[i + 1].value

same_records(s, t) ==
    /\ Len(s) = Len(t)
    /\ \A i \in 1..Len(s) :
        Cardinality({j \in 1..Len(s) : s[j] = s[i]})
            = Cardinality({j \in 1..Len(t) : t[j] = s[i]})

\* C10: the records written for each era are in non-increasing order of
\* value; the sort leaves a list in that order holding the same records, each
\* as often as before, and that list is what is written.
C10_SortedDescendingPermutation ==
    /\ [](\A f \in 1..Len(files) : non_increasing(files[f].content.migrations))
    /\ [][pc = "sort" => /\ non_increasing(migrations')
                         /\ same_records(migrations, migrations')]_vars
    /\ [][(pc = "dump" /\ Len(files') = Len(files) + 1)
            => files'[Len(files')].content.migrations = migrations]_vars

\* C10 witness: three files are written, each running from a larger value
\* down to a smaller one, the first record of the first file being one that
\* generate_migration_data did not produce first.
C10_Witness ==
    /\ pc = "done"
    /\ Len(files) = Len(eras)
    /\ \A f \in 1..Len(files) :
        LET s == files[f].content.migrations
        IN  s[1].value > s[Len(s)].value
    /\ files[1].content.migrations[1].origin # states[1]


-----------------------------------------------------------------------------
(* Claims: the file-write step *)

\* C11: a write of an output file that raises is caught: the script never
\* ends with an unhandled exception, the step that raises leads to the
\* handler that reports it and leaves the files written before in place, and
\* no file is written after it.  Held by generate_airport.py (Spec), not by
\* generate_migration_data.py (SpecMigration), whose main has no try.
C11_WriteErrorCaught ==
    /\ [](pc # except_missing)
    /\ [][(pc' # pc /\ pc' \in {except_reached, except_missing})
            => (pc' = except_reached /\ files' = files)]_vars
    /\ [][(pc \in {except_reached, except_missing}) => (files' = files)]_vars


-----------------------------------------------------------------------------
(* generate_airport.py: calculate_distance                                 *)
(*                                                                         *)
(* The haversine formula in fixed point: latitudes and longitudes are      *)
(* hundredths of a degree, angles and the values of sin and cos 1/10000,   *)
(* the distance tenths of a kilometre.  IEEE arithmetic and the math       *)
(* library round alike for x and -x, so every operation here truncates     *)
(* toward zero.  The result is within 80 km of the float's; what the       *)
(* model keeps is the order and the operands of the operations.            *)

\* lines 8-78: IATA code, Latitude and Longitude of the 54 airports
airport_coordinates ==
    << 
       <<"YYZ", 4368, -7962>>, <<"YVR", 4919, -12318>>, <<"JFK", 4064, -7378>>,
       <<"LAX", 3394, -11841>>, <<"ORD", 4098, -8791>>, <<"DFW", 3290, -9704>>,
       <<"BOS", 4237, -7101>>, <<"DCA", 3885, -7704>>, <<"LHR", 5147, -45>>,
       <<"CDG", 4901, 255>>, <<"AMS", 5231, 477>>, <<"FRA", 5004, 856>>,
       <<"MAD", 4047, -356>>, <<"ZRH", 4746, 856>>, <<"LIS", 3877, -913>>,
       <<"VIE", 4811, 1657>>, <<"PRG", 5010, 1426>>, <<"WAW", 5217, 2097>>,
       <<"BUD", 4743, 1926>>, <<"SVO", 5597, 3741>>, <<"FCO", 4236, 1224>>,
       <<"ARN", 5965, 1792>>, <<"DXB", 2525, 5537>>, <<"DOH", 2527, 5161>>,
       <<"TLV", 3200, 3487>>, <<"GRU", -2344, -4647>>, <<"EZE", -3482, -5854>>,
       <<"BOG", 470, -7415>>, <<"LIM", -1202, -7711>>, <<"SCL", -3339, -7079>>,
       <<"GIG", -2281, -4325>>, <<"CAI", 3012, 3141>>, <<"JNB", -2614, 2825>>,
       <<"CMN", 3337, -759>>, <<"NBO", -132, 3693>>, <<"NRT", 3576, 14039>>,
       <<"ICN", 3746, 12644>>, <<"PEK", 3951, 11641>>, <<"PVG", 3114, 12181>>,
       <<"SIN", 136, 10399>>, <<"BKK", 1369, 10075>>, <<"DEL", 2856, 7710>>,
       <<"MNL", 1451, 12102>>, <<"HKG", 2231, 11392>>, <<"KUL", 275, 10171>>,
       <<"CGK", -613, 10666>>, <<"BOM", 1909, 7287>>, <<"HAN", 2122, 10580>>,
       <<"TPE", 2508, 12123>>, <<"IKA", 3542, 5115>>, <<"KIX", 3443, 13523>>,
       <<"SYD", -3394, 15118>>, <<"PER", -3194, 11597>>, <<"AKL", -3701, 17478>> >>

sign(x) == IF x < 0 THEN -1 ELSE 1

abs(x) == IF x < 0 THEN -x ELSE x

\* x * y of two values in 1/10000
fmul(x, y) == sign(x) * sign(y) * MulDiv(abs(x), abs(y), 10000)

\* x / n
fdiv(x, n) == sign(x) * (abs(x) \div n)

\* math.radians of hundredths of a degree: pi / 180 = 0.017453
radians(deg) == sign(deg) * MulDiv(abs(deg), 17453, 10000)

\* pi / 2
half_pi == 15708

\* math.sin on [0, pi]: the series x - x^3/3! + x^5/5! - x^7/7! + x^9/9! on
\* [0, pi/2], and sin(x) = sin(pi - x) beyond
sin_positive(x) ==
    LET y == IF x <= half_pi THEN x ELSE 2 * half_pi - x
        y2 == fmul(y, y)
        t9 == 10000 - fdiv(fmul(y2, 10000), 72)
        t7 == 10000 - fdiv(fmul(y2, t9), 42)
        t5 == 10000 - fdiv(fmul(y2, t7), 20)
        t3 == 10000 - fdiv(fmul(y2, t5), 6)
    IN  fmul(y, t3)

\* math.sin on [-pi, pi]
math_sin(x) == sign(x) * sin_positive(abs(x))

\* math.cos on [-pi/2, pi/2]: cos(x) = sin(pi/2 - |x|)
math_cos(x) == sin_positive(half_pi - abs(x))

\* math.sqrt of a value in 1/10000
math_sqrt(x) == isqrt(x * 10000)

RECURSIVE asin_between(_, _, _)
\* the largest angle in lo..hi whose sine is at most y
asin_between(y, lo, hi) ==
    IF lo >= hi THEN lo
    ELSE LET mid == (lo + hi + 1) \div 2
         IN  IF sin_positive(mid) <= y THEN asin_between(y, mid, hi)
             ELSE asin_between(y, lo, mid - 1)

\* math.asin on [0, 1]
math_asin(y) == asin_between(y, 0, half_pi)

\* lines 133-138 on the radians of line 132, the product of the cosines
\* given
haversine(lat1, lon1, lat2, lon2, cos_product) ==
    LET dlat == lat2 - lat1
        dlon == lon2 - lon1
        sin_dlat == math_sin(fdiv(dlat, 2))
        sin_dlon == math_sin(fdiv(dlon, 2))
        a == fmul(sin_dlat, sin_dlat) + fmul(cos_product, fmul(sin_dlon, sin_dlon))
        c == 2 * math_asin(math_sqrt(a))
        r == 6371
    IN  (c * r) \div 1000

\* calculate_distance with cos(lat1) * cos(lat1) in line 135
calculate_distance_cos_lat1_twice(lat1, lon1, lat2, lon2) ==
    haversine(radians(lat1), radians(lon1), radians(lat2), radians(lon2),
              fmul(math_cos(radians(lat1)), math_cos(radians(lat1))))

\* lines 130-138: calculate_distance(lat1, lon1, lat2, lon2); the name
\* calculate_distance is the table of the corpus above
calculate_distance_of(lat1, lon1, lat2, lon2) ==
    haversine(radians(lat1), radians(lon1), radians(lat2), radians(lon2),
              fmul(math_cos(radians(lat1)), math_cos(radians(lat2))))

\* the calls of lines 210, 229, 280 and 345: the coordinates of two airports
DistanceCalls ==
    {[fn |-> "calculate_distance",
      origin |-> airport_coordinates[i][1],
      destination |-> airport_coordinates[j][1],
      lat1 |-> airport_coordinates[i][2], lon1 |-> airport_coordinates[i][3],
      lat2 |-> airport_coordinates[j][2], lon2 |-> airport_coordinates[j][3]] :
        i \in 1..Len(airport_coordinates), j \in 1..Len(airport_coordinates)}

InitDistance ==
    /\ pc = "call"
    /\ call \in DistanceCalls
    /\ ret = -1
    /\ FlightIdle
    /\ MigrationIdle

CallCalculateDistance ==
    /\ pc = "call"
    /\ call.fn = "calculate_distance"
    /\ ret' = calculate_distance_of(call.lat1, call.lon1, call.lat2, call.lon2)
    /\ pc' = "return"
    /\ UNCHANGED <<call, flight_vars, migration_vars>>

SpecDistance == InitDistance /\ [][CallCalculateDistance]_vars

\* C12: for all pairs of airports a and b, calculate_distance(a, b) equals
\* calculate_distance(b, a), and calculate_distance(a, a) is 0.
C12_DistanceSymmetricAndZero ==
    (pc = "return" /\ call.fn = "calculate_distance") =>
        /\ ret = calculate_distance_of(call.lat2, call.lon2, call.lat1, call.lon1)
        /\ call.origin = call.destination => ret = 0

\* C12 witness: the distance of two airports of different latitudes has
\* been computed, and it is that of the corpus table to within 10 km.
C12_Witness ==
    /\ pc = "return"
    /\ call.fn = "calculate_distance"
    /\ call.origin = "YYZ"
    /\ call.destination = "FRA"
    /\ abs(ret - calculate_distance("YYZ", "FRA")) < 100


-----------------------------------------------------------------------------
(* generate_airport.py: generate_filler_flights called on its own *)

\* the largest number of flights a call is asked for
MaxFillerWanted == 6

\* start_flight_id of a call: 1, and an id that follows solution and
\* interest flights
FillerStartIds == {1, 7}

\* lines 310-332: generate_filler_flights(start_flight_id, target_total)
\* is entered; target_total - start_flight_id + 1 flights are asked for
InitFiller ==
    /\ pc = "filler"
    /\ \E start_flight_id \in FillerStartIds, wanted \in 0..MaxFillerWanted :
        frame = FillerFrame(start_flight_id, start_flight_id + wanted - 1)
    /\ solution_flights = <<>>
    /\ interest_flights = <<>>
    /\ filler_flights = <<>>
    /\ all_flights = <<>>
    /\ next_id = 0
    /\ CallIdle
    /\ MigrationIdle

NextFiller ==
    \/ FillerSkip
    \/ FillerAppend
    \/ FillerReturn

SpecFiller == InitFiller /\ [][NextFiller]_vars

route_of(f) == <<f.origin, f.destination>>

filler_within_limits(flights) ==
    /\ \A i \in 1..Len(flights) : route_of(flights[i]) \notin covered_routes
    /\ \A i \in 1..Len(flights) :
        existing_count(flights, flights[i].origin, flights[i].destination) <= 5

\* C13: in every state of the filler loop and in its result, no filler
\* flight is on a covered route and no route carries more than 5 filler
\* flights.
C13_FillerAvoidsCoveredAndCapsRoutes ==
    /\ pc = "filler" => filler_within_limits(frame.flights)
    /\ filler_within_limits(filler_flights)

\* C13 witness: the loop holds 5 flights of one route and is asked for
\* one more, so the next sample of that route is skipped.
C13_Witness ==
    /\ pc = "filler"
    /\ Len(frame.flights) = 5
    /\ existing_count(frame.flights, "LHR", "FRA") = 5
    /\ filler_wanted(frame.flights, frame.start_flight_id, frame.target_total)


\* the scheduling of the filler loop: random.sample returns every pair
\* with positive probability, so an iteration that appends is taken in the
\* end whenever one is possible, and the return is taken when the loop ends
\* The calls ask for no flight, for one, and for one more than a route
\* can take, the least for which a sample is rejected by the limit.
FairWanted == {0, 1, MaxPerRoute + 1}

InitFillerFair ==
    /\ pc = "filler"
    /\ \E wanted \in FairWanted : frame = FillerFrame(7, 7 + wanted - 1)
    /\ solution_flights = <<>>
    /\ interest_flights = <<>>
    /\ filler_flights = <<>>
    /\ all_flights = <<>>
    /\ next_id = 0
    /\ CallIdle
    /\ MigrationIdle

SpecFillerFair ==
    /\ InitFillerFair
    /\ [][NextFiller]_vars
    /\ WF_vars(FillerAppend)
    /\ WF_vars(FillerReturn)

\* the number of flights the routes outside covered_routes can take
filler_capacity == 5 * Cardinality(sample_pairs \ covered_routes)

\* C14: generate_filler_flights terminates under fair choice of the pairs
\* whenever 5 * (ordered pairs outside covered_routes) is at least
\* target_total - start_flight_id + 1; it returns exactly that many flights;
\* and the list and the id counter change only by one flight appended and
\* the counter moved by one, never by a rejected sample.
C14_FillerTerminates ==
    /\ (/\ pc = "filler"
        /\ filler_capacity >= frame.target_total - frame.start_flight_id + 1)
            ~> (pc = "concat")
    /\ [][(pc = "filler" /\ pc' = "concat") =>
            Len(filler_flights') = frame.target_total - frame.start_flight_id + 1]_vars
    /\ [][(pc = "filler" /\ pc' = "filler") =>
            /\ Len(frame'.flights) = Len(frame.flights) + 1
            /\ SubSeq(frame'.flights, 1, Len(frame.flights)) = frame.flights
            /\ frame'.flight_id = frame.flight_id + 1]_vars

\* C14 witness: a call returned the flights it was asked for, 5 of them on
\* one route, so that samples of that route were being rejected.
C14_Witness ==
    /\ pc = "concat"
    /\ Len(filler_flights) = MaxPerRoute + 1
    /\ existing_count(filler_flights, "FRA", "LHR") = 5


-----------------------------------------------------------------------------
(* Claims: the dates of the interest flights *)

same_route_and_date(f, g) ==
    /\ f.origin = g.origin
    /\ f.destination = g.destination
    /\ f.date = g.date

duplicates_solution(f) ==
    \E i \in 1..Len(solution_flights) : same_route_and_date(f, solution_flights[i])

date_window ==
    {"2025-06-01", "2025-06-02", "2025-06-03", "2025-06-04", "2025-06-05",
     "2025-06-06", "2025-06-07", "2025-06-08", "2025-06-09", "2025-06-10",
     "2025-06-11", "2025-06-12", "2025-06-13", "2025-06-14"}

in_date_loop == pc = "interest" /\ frame.at = "date"

\* C16: the date loop of generate_interest_flights is bounded.  At most 10
\* re-draws follow the first draw of a date; every step of the loop is a
\* re-draw that counts one more attempt or the exit that appends exactly one
\* flight carrying the last date drawn; a route ends with exactly its
\* num_flights flights, num_flights within its range; every date lies
\* within 2025-06-01..2025-06-14.
C16_DateLoopBounded ==
    /\ [](in_date_loop => (frame.attempts \in 0..10 /\ frame.date \in date_window))
    /\ [](pc = "interest" =>
            \A i \in 1..Len(frame.flights) : frame.flights[i].date \in date_window)
    /\ [](\A i \in 1..Len(interest_flights) : interest_flights[i].date \in date_window)
    /\ [][in_date_loop =>
            \/ /\ frame'.at = "date"
               /\ frame'.attempts = frame.attempts + 1
               /\ frame'.flights = frame.flights
            \/ /\ frame'.at = "flight"
               /\ Len(frame'.flights) = Len(frame.flights) + 1
               /\ SubSeq(frame'.flights, 1, Len(frame.flights)) = frame.flights
               /\ frame'.flights[Len(frame'.flights)].date = frame.date
               /\ frame'.count = frame.count + 1]_vars
    /\ [][(pc = "interest" /\ frame.at = "flight" /\ frame'.at = "route") =>
            /\ frame.num_flights \in MinNumFlights..MaxNumFlights
            /\ existing_count(frame.flights, POINTS_OF_INTEREST[frame.route][1],
                              POINTS_OF_INTEREST[frame.route][2])
                    = frame.num_flights]_vars

\* C16 witness: the tenth re-draw of a date has again given a solution
\* date of the route; the loop ends and the flight is appended with it.
C16_Witness ==
    /\ in_date_loop
    /\ frame.attempts = 10
    /\ frame.date \in frame.solution_dates_used


-----------------------------------------------------------------------------
(* Claims: the price of a solution flight *)

returned_price == pc = "return" /\ call.fn = "calculate_flight_price"

general_of_call ==
    general_price(call.distance_km, call.flight_time, call.Uvar)

\* C18: the override follows the general formula and does not replace it.
\* With the same distance, flight time and variation draw the price of a
\* solution flight is that of an ordinary flight whenever the general price
\* (after tapering, before the clamp) lies in [600, 1100]; outside it the
\* price is the clamp of line 180 applied to the override's draw.
C18_OverrideAfterGeneralFormula ==
    (returned_price /\ call.is_solution) =>
        LET ordinary == calculate_flight_price(call.distance_km, call.flight_time,
                                               FALSE, call.Uvar, call.Uover)
            floor_mills == Max(150000, 8 * call.distance_km)
            clamped(p) == Round(Max(floor_mills, Min(2000000, p)), 10)
        IN  /\ (600000 <= general_of_call /\ general_of_call <= 1100000)
                    => ret = ordinary
            /\ ret # ordinary
                    => (general_of_call > 1100000 \/ general_of_call < 600000)
            /\ general_of_call > 1100000
                    => ret = clamped(900000 + (200000 * call.Uover) \div 1000)
            /\ general_of_call < 600000
                    => ret = clamped(600000 + (200000 * call.Uover) \div 1000)

\* C18 witness: a solution flight whose general price lies in the band has
\* got that price, to the cent.
C18_Witness ==
    /\ returned_price
    /\ call.is_solution
    /\ 600000 < general_of_call
    /\ general_of_call < 1100000
    /\ ret = Round(general_of_call, 10)


-----------------------------------------------------------------------------
(* Claims: the airlines of the corpus *)

european == {EUROPEAN_AIRPORTS[i] : i \in 1..Len(EUROPEAN_AIRPORTS)}

to_europe(f) == f.origin = "YYZ" /\ f.destination \in european

airline_codes == {airlines[i] : i \in 1..Len(airlines)}

puzzle_airlines(flights) ==
    \A i \in 1..Len(flights) :
        /\ flights[i].airline \in airline_codes
        /\ to_europe(flights[i]) => flights[i].airline \in {"AA", "AC", "LH"}

\* C19: every flight of the corpus from YYZ to an airport of
\* EUROPEAN_AIRPORTS carries AA, AC or LH: the solution flights carry AC,
\* the interest flights what get_airline_for_route draws among the three,
\* and no filler flight is on such a route; on every other route
\* get_airline_for_route can return each of the 10 airlines.
C19_PuzzleRoutesCarryPuzzleAirlines ==
    /\ puzzle_airlines(all_flights)
    /\ puzzle_airlines(solution_flights)
    /\ puzzle_airlines(interest_flights)
    /\ pc \in {"solution", "interest", "filler"} => puzzle_airlines(frame.flights)
    /\ \A i \in 1..Len(solution_flights) : solution_flights[i].airline = "AC"
    /\ \A i \in 1..Len(filler_flights) : ~to_europe(filler_flights[i])
    /\ pc = "filler" => \A i \in 1..Len(frame.flights) : ~to_europe(frame.flights[i])
    /\ \A route \in sample_pairs :
        ~(route[1] = "YYZ" /\ route[2] \in european) =>
            {get_airline_for_route(route[1], route[2], "", k) :
                k \in 1..Len(airlines)} = airline_codes

\* C19 witness: a finished corpus whose flights from YYZ to Europe carry
\* each of AA, AC and LH, with a filler flight of another airline on
\* another route.
C19_Witness ==
    /\ pc = "done"
    /\ \A code \in {"AA", "AC", "LH"} :
        \E i \in 1..Len(all_flights) :
            to_europe(all_flights[i]) /\ all_flights[i].airline = code
    /\ \E i \in 1..Len(all_flights) :
        ~to_europe(all_flights[i]) /\ all_flights[i].airline \notin {"AA", "AC", "LH"}

=============================================================================
